---- MODULE Spec2Model ----
(***************************************************************************)
(* The lazy, asynchronous tree engine of finch: S3FileTreeModel with its   *)
(* Loader thread (S3ObjectLoaderThread), its existence prober              *)
(* (S3ChildrenCheckerWorker) and the expansion handler of S3TreeView.      *)
(*                                                                         *)
(* One action is one handler run on the engine (GUI) thread, or one step   *)
(* of a background thread.  Signals emitted across threads are queued      *)
(* connections: they wait in `events` until the engine thread takes them.  *)
(* Strings that the code parses (object keys) are sequences of characters. *)
(*                                                                         *)
(* The store is outside the engine: every request to it may be answered    *)
(* from any of StoreContents, or fail.  CHECK_FOLDER_CONTENTS is the value *)
(* finch/config.py holds when the model module is imported (False as       *)
(* shipped, True when the feature is switched on there): both are          *)
(* explored.  A behaviour makes at most MaxOps calls into the engine; the  *)
(* threads and queued calls those start run without a bound of their own.  *)
(***************************************************************************)
EXTENDS Integers, Sequences, FiniteSets, TLC

\* ---------------------------------------------------------------- bounds
MaxOps == 4       \* calls a behaviour makes into the engine from outside

\* ------------------------------------------------------------ characters
\* ord() of the characters used in keys: '/' sorts before the letters
Ord(c) == CASE c = "/" -> 47 [] c = "B" -> 66 [] c = "a" -> 97 [] c = "b" -> 98
            [] c = "x" -> 120 [] c = "y" -> 121 [] OTHER -> 0

RECURSIVE LexLess(_, _)
\* a < b for two strings, as the store orders keys (byte order)
LexLess(a, b) ==
    IF a = <<>> THEN b # <<>>
    ELSE IF b = <<>> THEN FALSE
    ELSE IF Head(a) = Head(b) THEN LexLess(Tail(a), Tail(b))
    ELSE Ord(Head(a)) < Ord(Head(b))

RECURSIVE SortedSeq(_)
\* the strings of a set in ascending byte order
SortedSeq(S) ==
    IF S = {} THEN <<>>
    ELSE LET m == CHOOSE x \in S : \A y \in S \ {x} : LexLess(x, y)
         IN  <<m>> \o SortedSeq(S \ {m})

\* str.startswith
StartsWith(k, p) == Len(k) >= Len(p) /\ SubSeq(k, 1, Len(p)) = p

\* str.endswith('/')
EndsWithSlash(k) == k # <<>> /\ k[Len(k)] = "/"

RECURSIVE RStripSlash(_)
\* str.rstrip('/'): every trailing '/' is removed
RStripSlash(k) ==
    IF EndsWithSlash(k) THEN RStripSlash(SubSeq(k, 1, Len(k) - 1)) ELSE k

RECURSIVE LastSegment(_)
\* str.split('/')[-1]: the text after the last '/'
LastSegment(k) ==
    IF k = <<>> THEN <<>>
    ELSE IF k[Len(k)] = "/" THEN <<>>
    ELSE LastSegment(SubSeq(k, 1, Len(k) - 1)) \o <<k[Len(k)]>>

\* position of the first '/' of k at or after position i, 0 when there is none
FirstSlashFrom(k, i) ==
    IF \E j \in i..Len(k) : k[j] = "/"
    THEN CHOOSE j \in i..Len(k) : k[j] = "/" /\ \A h \in i..(j - 1) : k[h] # "/"
    ELSE 0

\* ----------------------------------------------------------------- store
\* list_objects_v2(Prefix=prefix, Delimiter='/') over the keys of a bucket:
\* keys with a '/' after the prefix are rolled up into CommonPrefixes
CommonPrefixes(keys, prefix) ==
    { SubSeq(k, 1, FirstSlashFrom(k, Len(prefix) + 1)) :
        k \in { q \in keys : StartsWith(q, prefix)
                             /\ FirstSlashFrom(q, Len(prefix) + 1) # 0 } }

Contents(keys, prefix) ==
    { k \in keys : StartsWith(k, prefix) /\ FirstSlashFrom(k, Len(prefix) + 1) = 0 }

BUCKET == "Bucket"
FOLDER == "Folder"
FILE == "File"
\* None, where the code keeps a string: no key is ever equal to it
NoneVal == <<"None">>

\* S3Object: what the service hands to the loader for one entry
\* None, where the code keeps a datetime
NoDate == [tz |-> FALSE, t |-> 0 - 1]

\* (size and last_modified at the defaults of the dataclass: 0 and None)
S3Object(name, type, bucket, key) ==
    [name |-> name, type |-> type, bucket |-> bucket, key |-> key,
     size |-> 0, last_modified |-> NoDate]

\* a datetime: tz tells whether it carries a time zone.  The timestamps of a
\* response (LastModified, CreationDate) are parsed by the client library
\* into timezone-aware datetimes; datetime.min is naive.
Aware(t) == [tz |-> TRUE, t |-> t]
datetime_min == [tz |-> FALSE, t |-> 0]

\* what the store records for the object at key and for a bucket: the sizes
\* and times are data of the modelled stores, chosen so that the orders by
\* name, by size and by time differ
Size(key) == Len(key)
LastModified(key) == Aware(200 - Ord(key[Len(key)]))
CreationDate(name) == Aware(200 - Ord(name[Len(name)]))

RECURSIVE FolderObjects(_, _)
FolderObjects(bucket, cps) ==
    IF cps = <<>> THEN <<>>
    ELSE LET prefix_path == Head(cps)
             rest == FolderObjects(bucket, Tail(cps))
         IN  IF prefix_path # <<>>
             THEN <<S3Object(LastSegment(RStripSlash(prefix_path)), FOLDER,
                             bucket, RStripSlash(prefix_path))>> \o rest
             ELSE rest

RECURSIVE FileObjects(_, _)
FileObjects(bucket, cs) ==
    IF cs = <<>> THEN <<>>
    ELSE LET key == Head(cs)
             rest == FileObjects(bucket, Tail(cs))
         IN  IF key # <<>> /\ ~EndsWithSlash(key)
             THEN <<[S3Object(LastSegment(key), FILE, bucket, key)
                       EXCEPT !.size = Size(key),
                              !.last_modified = LastModified(key)]>> \o rest
             ELSE rest

\* S3Service.list_objects: folders of the page first, then its files
list_objects(keys, bucket, prefix) ==
    FolderObjects(bucket, SortedSeq(CommonPrefixes(keys, prefix)))
        \o FileObjects(bucket, SortedSeq(Contents(keys, prefix)))

RECURSIVE BucketObjects(_)
\* S3Service.list_buckets
BucketObjects(names) ==
    IF names = <<>> THEN <<>>
    ELSE <<[S3Object(Head(names), BUCKET, NoneVal, NoneVal)
              EXCEPT !.last_modified = CreationDate(Head(names))]>>
           \o BucketObjects(Tail(names))

\* What the store may hold when a request reaches it: the bucket names in
\* the order list_buckets returns them, and the keys held by every bucket.
StoreContents ==
    { [buckets |-> <<>>, keys |-> {}],
      [buckets |-> <<<<"b">>, <<"a">>>>, keys |-> {<<"x", "/">>, <<"x", "/", "y">>}],
      [buckets |-> <<<<"a">>>>,
       keys |-> {<<"x", "/", "/", "y">>, <<"x", "/", "x", "/", "y">>}] }

\* ----------------------------------------------------------------- state
Root == 0

VARIABLES
    nodes,                  \* S3Node objects by identity: name, type, bucket, key,
                            \*   parent, children, is_loaded
    CHECK_FOLDER_CONTENTS,  \* the flag as bound when file_tree_model is imported
    config_CHECK_FOLDER_CONTENTS,   \* the attribute CHECK_FOLDER_CONTENTS of finch.config
    s3_resource,            \* S3Service.s3_resource is a boto3 resource (FALSE: None)
    current_worker,         \* S3FileTreeModel._current_worker (0: None)
    has_children_cache,     \* S3FileTreeModel._has_children_cache
    checking_nodes,         \* S3FileTreeModel._checking_nodes
    active_checkers,        \* S3FileTreeModel._active_checkers: node_id -> worker
    node_map,               \* S3FileTreeModel._node_map (its keys)
    runs,                   \* S3ObjectLoaderThread objects not yet deleted, by number
    run_count,              \* S3ObjectLoaderThread objects created so far
    probes,                 \* S3ChildrenCheckerWorker objects that have not run yet
    probe_count,            \* S3ChildrenCheckerWorker objects created so far
    events,                 \* queued cross-thread calls waiting for the engine thread
    signals,                \* emissions counted per signal
    brackets,               \* begin notifications whose end has not been emitted
    consumer,               \* row count per parent as the notifications told a consumer
    history,                \* what the claims need to remember of past handlers
    op_count                \* calls made into the engine from outside so far

vars == <<nodes, CHECK_FOLDER_CONTENTS, config_CHECK_FOLDER_CONTENTS, s3_resource,
          current_worker, has_children_cache, checking_nodes, active_checkers, node_map, runs, run_count, probes, probe_count, events,
          signals, brackets, consumer, history, op_count>>

NodeIds == DOMAIN nodes
RunIds == DOMAIN runs
ProbeIds == DOMAIN probes

\* S3Node(...): a new node object, not loaded, without children
S3Node(obj, parent) ==
    [name |-> obj.name, type |-> obj.type, bucket |-> obj.bucket, key |-> obj.key,
     size |-> obj.size, last_modified |-> obj.last_modified,
     parent |-> parent, children |-> <<>>, is_loaded |-> FALSE]

\* S3Node.can_fetch_more
can_fetch_more(n) == ~nodes[n].is_loaded /\ nodes[n].type \in {BUCKET, FOLDER}

Range(s) == { s[i] : i \in 1..Len(s) }

RECURSIVE InTree(_)
\* n can be addressed by a valid QModelIndex: it is reached from root through
\* children lists (index() hands out children[row] of a reachable parent)
InTree(n) ==
    \/ n = Root
    \/ \E p \in NodeIds : n \in Range(nodes[p].children) /\ p # n /\ InTree(p)

\* the nodes a valid (non-root) QModelIndex can point to
Indexed == { n \in NodeIds : n # Root /\ InTree(n) }

\* ---------------------------------------------- structural notifications
Begin(kind, parent, first, last) ==
    [op |-> "begin", kind |-> kind, parent |-> parent, first |-> first, last |-> last]
End(kind) == [op |-> "end", kind |-> kind, parent |-> Root, first |-> 0, last |-> 0]
\* the point of a handler where it changes the length or order of children[parent]
Mutate(parent) == [op |-> "mutate", kind |-> "", parent |-> parent, first |-> 0, last |-> 0]

\* an open bracket covers parent p: row brackets address one parent, the
\* reset and layout brackets address the whole model
Covers(b, p) == b.kind \in {"reset", "layout"} \/ b.parent = p

RECURSIVE OpenAfter(_, _)
\* the open brackets after the notifications of log, starting from stack
OpenAfter(stack, log) ==
    IF log = <<>> THEN stack
    ELSE LET e == Head(log)
         IN  CASE e.op = "begin" -> OpenAfter(Append(stack, e), Tail(log))
               [] e.op = "end" ->
                    OpenAfter(IF stack # <<>> /\ stack[Len(stack)].kind = e.kind
                              THEN SubSeq(stack, 1, Len(stack) - 1) ELSE stack,
                              Tail(log))
               [] OTHER -> OpenAfter(stack, Tail(log))

RECURSIVE Interleaved(_, _)
\* some begin of log is emitted while another bracket is open
Interleaved(stack, log) ==
    IF log = <<>> THEN FALSE
    ELSE \/ Head(log).op = "begin" /\ stack # <<>>
         \/ Interleaved(OpenAfter(stack, <<Head(log)>>), Tail(log))

RECURSIVE Unbracketed(_, _)
\* some mutation of log happens while no open bracket covers its parent
Unbracketed(stack, log) ==
    IF log = <<>> THEN FALSE
    ELSE \/ /\ Head(log).op = "mutate"
            /\ ~\E i \in 1..Len(stack) : Covers(stack[i], Head(log).parent)
         \/ Unbracketed(OpenAfter(stack, <<Head(log)>>), Tail(log))

RECURSIVE Derived(_, _, _, _)
\* the consumer's row counts after the notifications of log: rowsInserted
\* adds last-first+1 rows, rowsRemoved subtracts them, modelReset re-reads
\* rowCount (final holds the children lengths at that point)
Derived(count, stack, log, final) ==
    IF log = <<>> THEN count
    ELSE LET e == Head(log)
             top == stack[Len(stack)]
             next ==
                IF e.op = "end" /\ stack # <<>> /\ top.kind = e.kind
                THEN CASE e.kind = "insert" ->
                            [count EXCEPT ![top.parent] = @ + (top.last - top.first + 1)]
                       [] e.kind = "remove" ->
                            [count EXCEPT ![top.parent] = @ - (top.last - top.first + 1)]
                       [] e.kind = "reset" -> final
                       [] OTHER -> count
                ELSE count
         IN  Derived(next, OpenAfter(stack, <<e>>), Tail(log), final)

\* rowCount of every node
RowCounts(ns) == [n \in DOMAIN ns |-> Len(ns[n].children)]

\* the lasting effect of one handler's notifications
Notify(log, nodes2) ==
    /\ brackets' = OpenAfter(brackets, log)
    /\ consumer' = Derived([n \in DOMAIN nodes2 |->
                               IF n \in DOMAIN consumer THEN consumer[n] ELSE 0],
                           brackets, log, RowCounts(nodes2))
    /\ history' = [history EXCEPT
                      !.interleaved = @ \/ Interleaved(brackets, log),
                      !.unbracketed = @ \/ Unbracketed(brackets, log)]

\* ------------------------------------------------------------- signals
\* S3TreeView._safe_initialize_model connects the model's loading_started and
\* loading_finished to the view's signals of the same name
EmitLoadingStarted(sig) ==
    [sig EXCEPT !.loading_started = @ + 1, !.view_loading_started = @ + 1]
EmitLoadingFinished(sig) ==
    [sig EXCEPT !.loading_finished = @ + 1, !.view_loading_finished = @ + 1]
EmitErrorOccurred(sig) == [sig EXCEPT !.error_occurred = @ + 1]
EmitViewLoadingStarted(sig) == [sig EXCEPT !.view_loading_started = @ + 1]

\* -------------------------------------------------------- loader thread
\* a queued call waiting for the engine thread
Event(kind, src, items, node_id, has_children) ==
    [kind |-> kind, src |-> src, items |-> items, node_id |-> node_id,
     has_children |-> has_children]

\* what the store call of run r can return: a listing (the Exception of the
\* service is the other outcome, see Emissions)
Listings(r) ==
    IF r.bucket = NoneVal
    THEN { BucketObjects(s.buckets) : s \in StoreContents }
    ELSE { list_objects(s.keys, r.bucket, r.prefix) : s \in StoreContents }

\* the events S3ObjectLoaderThread.run can emit when it runs to its end with
\* _is_running still set: finished(nodes) or error(str(e))
EmissionsFor(w, r) ==
    { Event("finished", w, items, 0, FALSE) :
        items \in Listings(r) }
      \cup { Event("error", w, <<>>, 0, FALSE) }

\* S3Service.list_buckets / list_objects as run r of worker w calls them with
\* s3_resource = svc: the event the run has to emit and s3_resource after
\* the call.  An exception of the store is caught, s3_resource is set to None
\* and the exception is raised again; with s3_resource = None the attribute
\* access s3_resource.meta raises and takes the same path.
StoreCall(w, r, svc) ==
    IF svc
    THEN { [event |-> e, s3_resource |-> e.kind # "error"] : e \in EmissionsFor(w, r) }
    ELSE { [event |-> Event("error", w, <<>>, 0, FALSE), s3_resource |-> FALSE] }

Emissions(w) == { o.event : o \in StoreCall(w, runs[w], s3_resource) }

\* S3ObjectLoaderThread.run, its first statements: the thread has been
\* scheduled and sets _is_running
LoaderBegin(w) ==
    /\ w \in RunIds
    /\ runs[w].phase = "started"
    /\ ~runs[w].is_running
    /\ runs' = [runs EXCEPT ![w].phase = "running", ![w].is_running = TRUE]
    /\ UNCHANGED <<nodes, CHECK_FOLDER_CONTENTS, config_CHECK_FOLDER_CONTENTS,
                   s3_resource, current_worker, has_children_cache,
                   checking_nodes, active_checkers, node_map, run_count, probes,
                   probe_count, events, signals, brackets, consumer, history>>

\* S3ObjectLoaderThread.run, from the store call to the end: the result is
\* emitted if _is_running is still set
LoaderEnd(w) ==
    /\ w \in RunIds
    /\ runs[w].phase = "running"
    /\ runs[w].is_running
    /\ \E o \in StoreCall(w, runs[w], s3_resource) :
          /\ events' = events \cup {o.event}
          /\ s3_resource' = o.s3_resource
          /\ runs' = [runs EXCEPT ![w].phase = "done", ![w].is_running = FALSE]
    /\ UNCHANGED <<nodes, CHECK_FOLDER_CONTENTS, config_CHECK_FOLDER_CONTENTS,
                   current_worker, has_children_cache,
                   checking_nodes, active_checkers, node_map, run_count, probes,
                   probe_count, signals, brackets, consumer, history>>

\* S3ObjectLoaderThread.stop on worker w: _is_running is cleared and wait()
\* blocks the engine thread until run() has returned.  The set holds every
\* <<event queue, s3_resource>> the thread can leave behind: a thread not yet
\* scheduled sets
\* _is_running again and runs to its emission; a thread inside run() finds
\* the flag cleared and emits nothing, unless it had read the flag already
\* (the flag is read and written without a lock).
\* (r is the thread object of w, evs the queue and svc s3_resource when stop
\* is called)
Stopped(w, r, evs, svc) ==
    CASE r.phase = "started" ->
            { <<evs \cup {o.event}, o.s3_resource>> : o \in StoreCall(w, r, svc) }
      [] r.phase = "running" ->
            { <<evs, o.s3_resource>> : o \in StoreCall(w, r, svc) }
              \cup { <<evs \cup {o.event}, o.s3_resource>> : o \in StoreCall(w, r, svc) }
      [] OTHER -> { <<evs, svc>> }

stop(w) == Stopped(w, runs[w], events, s3_resource)

\* _cleanup_worker without its disconnect() and deleteLater(): the worker
\* stays connected and what it queued stays queued
DisconnectKeepsQueued(w, rs, evs) == <<rs, evs>>

\* finished.disconnect(), error.disconnect(), deleteLater() on worker w: a
\* queued emission whose connection is gone is discarded when it reaches the
\* engine thread, so it leaves the queue here; the thread object is deleted
Disconnect(w, rs, evs) ==
    <<[x \in DOMAIN rs \ {w} |-> rs[x]], { e \in evs : e.src # w \/ e.kind = "checked" }>>

\* a start of a new worker that leaves out _cleanup_worker: the previous
\* worker keeps running and stays connected
NoCleanup == { <<runs, events, current_worker, s3_resource>> }

\* a _cleanup_worker that does not end with self._current_worker = None
KeepWorker(w) == w

\* self._current_worker = None
Forget(w) == 0

\* _cleanup_worker called with _current_worker = cw, thread objects rs,
\* queue evs and s3_resource = svc: every <<runs, events, _current_worker,
\* s3_resource>> it can end with.  On a worker that is already deleted the
\* calls raise and except: pass swallows the exception.
CleanupWorker(cw, rs, evs, svc) ==
    IF cw # 0
    THEN IF cw \in DOMAIN rs
         THEN { <<Disconnect(cw, rs, left[1])[1], Disconnect(cw, rs, left[1])[2],
                  Forget(cw), left[2]>> :
                  left \in Stopped(cw, rs[cw], evs, svc) }
         ELSE { <<rs, evs, Forget(cw), svc>> }
    ELSE { <<rs, evs, cw, svc>> }

\* S3FileTreeModel._cleanup_worker: stop the current worker, disconnect its
\* finished and error signals, forget it.  The set holds every <<runs,
\* events, _current_worker, s3_resource>> the call can end with.
_cleanup_worker == CleanupWorker(current_worker, runs, events, s3_resource)

\* the load of worker w has not completed: it is connected and neither its
\* result nor its error has been served
InFlight(w) == w \in RunIds /\ ~runs[w].delivered

\* the handlers behind requestExpand
RequestExpand == {"fetchMore", "_handle_expansion"}

\* the row of the QModelIndex of node n: its place in the children list that
\* holds it (0-based), -1 for the invalid index of root
rowOf(n) ==
    IF \E p \in NodeIds : n # Root /\ n \in Range(nodes[p].children)
    THEN LET p == CHOOSE q \in NodeIds : n \in Range(nodes[q].children)
         IN  (CHOOSE i \in 1..Len(nodes[p].children) : nodes[p].children[i] = n) - 1
    ELSE 0 - 1

\* S3ObjectLoaderThread(...) followed by connect and start
S3ObjectLoaderThread(parent_node, bucket, prefix, origin) ==
    [parent_node |-> parent_node, bucket |-> bucket, prefix |-> prefix,
     \* the row of parent_index, which the lambda connected to finished keeps
     parent_index |-> rowOf(parent_node),
     phase |-> "started", is_running |-> FALSE,
     delivered |-> FALSE, origin |-> origin,
     \* the run this one supersedes: a run for the same parent that was still
     \* in flight when this one was started (0: none), and the handler that
     \* had started it
     supersedes |-> IF /\ InFlight(current_worker)
                       /\ runs[current_worker].parent_node = parent_node
                    THEN current_worker ELSE 0,
     superseded_origin |-> IF /\ InFlight(current_worker)
                              /\ runs[current_worker].parent_node = parent_node
                           THEN runs[current_worker].origin ELSE "",
     \* the cache held NoChildren for the parent, with no clearNode since
     no_children |-> /\ parent_node \in DOMAIN has_children_cache
                     /\ ~has_children_cache[parent_node]
                     /\ parent_node \notin history.cleared]

\* S3FileTreeModel._fetch_children; taken is the queued call the calling
\* handler is serving, if any
_fetch_children(parent_node, origin, taken) ==
    LET bucket == IF nodes[parent_node].type = BUCKET
                  THEN nodes[parent_node].name ELSE nodes[parent_node].bucket
        prefix == IF nodes[parent_node].type = BUCKET
                  THEN <<>> ELSE nodes[parent_node].key \o <<"/">>
    IN  /\ \E c \in _cleanup_worker :
              /\ runs' = (run_count + 1 :>
                            S3ObjectLoaderThread(parent_node, bucket, prefix, origin))
                         @@ c[1]
              /\ events' = c[2] \ taken
              /\ s3_resource' = c[4]
        /\ run_count' = run_count + 1
        /\ current_worker' = run_count + 1

\* canFetchMore without its look into the cache
canFetchMoreIgnoresCache(node) ==
    IF node \in checking_nodes THEN FALSE ELSE can_fetch_more(node)

\* canFetchMore without its look at the probes in flight
canFetchMoreIgnoresProbes(node) ==
    IF node \in DOMAIN has_children_cache /\ ~has_children_cache[node] THEN FALSE
    ELSE can_fetch_more(node)

\* S3FileTreeModel.canFetchMore for the valid index of node
canFetchMore(node) ==
    IF node \in checking_nodes THEN FALSE
    ELSE IF node \in DOMAIN has_children_cache /\ ~has_children_cache[node] THEN FALSE
    ELSE can_fetch_more(node)

\* S3FileTreeModel.fetchMore for the valid index of node
fetchMore(node) ==
    /\ node \in Indexed
    /\ node \notin checking_nodes
    /\ ~(node \in DOMAIN has_children_cache /\ ~has_children_cache[node])
    /\ can_fetch_more(node)
    /\ signals' = EmitLoadingStarted(signals)
    /\ _fetch_children(node, "fetchMore", {})
    /\ UNCHANGED <<nodes, CHECK_FOLDER_CONTENTS, config_CHECK_FOLDER_CONTENTS,
                   has_children_cache, checking_nodes,
                   active_checkers, node_map, probes, probe_count, brackets, consumer,
                   history>>

\* S3FileTreeModel.load_buckets: the reset bracket it opens is closed only on
\* the path where starting the worker raises
load_buckets(sig) ==
    LET nodes2 == [nodes EXCEPT ![Root].children = <<>>]
    IN  /\ signals' = EmitLoadingStarted(sig)
        /\ nodes' = nodes2
        /\ Notify(<<Begin("reset", Root, 0, 0)>>
                    \o (IF nodes[Root].children # <<>> THEN <<Mutate(Root)>> ELSE <<>>),
                  nodes2)
        /\ \E c \in _cleanup_worker :
              /\ runs' = (run_count + 1 :>
                            S3ObjectLoaderThread(Root, NoneVal, NoneVal, "load_buckets"))
                         @@ c[1]
              /\ events' = c[2]
              /\ s3_resource' = c[4]
        /\ run_count' = run_count + 1
        /\ current_worker' = run_count + 1
        /\ UNCHANGED <<CHECK_FOLDER_CONTENTS, has_children_cache, checking_nodes,
                       active_checkers, node_map, probes, probe_count>>

\* S3TreeView.refresh
refresh == load_buckets(EmitViewLoadingStarted(signals))

\* SettingsDialog._on_check_empty_changed(state): the attribute of the
\* config module is written, and the tree is refreshed when the parent of
\* the dialog has an attribute s3_tree (the main window has one)
_on_check_empty_changed(state) ==
    /\ config_CHECK_FOLDER_CONTENTS' = state
    /\ \/ refresh
       \/ UNCHANGED <<nodes, CHECK_FOLDER_CONTENTS, s3_resource, current_worker,
                      has_children_cache, checking_nodes, active_checkers, node_map,
                      runs, run_count, probes, probe_count, events, signals, brackets,
                      consumer, history>>

\* beginInsertRows(parent_index, 0, len(nodes) - 1) of _on_nodes_loaded
LoadedRowsBegin(parent_node, items) == Begin("insert", parent_node, 0, Len(items) - 1)

\* S3FileTreeModel._on_nodes_loaded(nodes, parent_node, parent_index), called
\* through the queued finished signal of worker e.src
_on_nodes_loaded(e) ==
    LET parent_node == runs[e.src].parent_node
        first == Cardinality(NodeIds)
        ids == [i \in 1..Len(e.items) |-> first + i - 1]
        nodes2 == [n \in NodeIds \cup Range(ids) |->
                     IF n \in NodeIds
                     THEN IF n = parent_node
                          THEN [nodes[n] EXCEPT !.children = ids, !.is_loaded = TRUE]
                          ELSE nodes[n]
                     ELSE S3Node(e.items[n - first + 1], parent_node)]
    IN  /\ node_map' = node_map \cup Range(ids)
        /\ nodes' = nodes2
        /\ Notify(<<LoadedRowsBegin(parent_node, e.items)>>
                    \o (IF nodes[parent_node].children # ids
                        THEN <<Mutate(parent_node)>> ELSE <<>>)
                    \o <<End("insert")>>,
                  nodes2)
        /\ signals' = EmitLoadingFinished(signals)
        /\ runs' = [runs EXCEPT ![e.src].delivered = TRUE]
        /\ events' = events \ {e}
        /\ UNCHANGED <<CHECK_FOLDER_CONTENTS, config_CHECK_FOLDER_CONTENTS,
                       s3_resource, current_worker, has_children_cache,
                       checking_nodes, active_checkers, run_count, probes, probe_count>>

\* S3FileTreeModel._on_load_error, called through the queued error signal
_on_load_error(e) ==
    /\ signals' = EmitLoadingFinished(EmitErrorOccurred(signals))
    /\ \E c \in _cleanup_worker :
          /\ runs' = c[1]
          /\ events' = c[2] \ {e}
          /\ current_worker' = c[3]
          /\ s3_resource' = c[4]
    /\ UNCHANGED <<nodes, CHECK_FOLDER_CONTENTS, config_CHECK_FOLDER_CONTENTS,
                   has_children_cache, checking_nodes,
                   active_checkers, node_map, run_count, probes, probe_count, brackets,
                   consumer, history>>

\* a queued finished/error emission of a connected worker reaches the engine
\* thread and its slot runs
Deliver(e) ==
    /\ e \in events
    /\ e.kind \in {"finished", "error"}
    /\ e.src \in RunIds
    /\ IF e.kind = "finished" THEN _on_nodes_loaded(e) ELSE _on_load_error(e)

\* ----------------------------------------------------- expansion handler
\* id(node): the address of the object, an int; the cache is keyed by
\* node.node_id, a uuid string, so no id() is ever one of its keys
id(node) == 0 - node - 1

\* S3TreeView._handle_expansion for the valid index of node
_handle_expansion(node) ==
    /\ node \in Indexed
    /\ Len(nodes[node].children) = 0
    /\ nodes[node].type \in {BUCKET, FOLDER}
    /\ signals' = EmitViewLoadingStarted(signals)
    /\ ~(id(node) \in DOMAIN has_children_cache /\ ~has_children_cache[id(node)])
    /\ _fetch_children(node, "_handle_expansion", {})
    /\ UNCHANGED <<nodes, CHECK_FOLDER_CONTENTS, config_CHECK_FOLDER_CONTENTS,
                   has_children_cache, checking_nodes,
                   active_checkers, node_map, probes, probe_count, brackets, consumer,
                   history>>

\* ---------------------------------------------------------------- prober
\* QThreadPool.setMaxThreadCount(4)
maxThreadCount == 4

\* what S3FileTreeModel.hasChildren returns for the valid index of node
hasChildrenReturns(node) ==
    IF Len(nodes[node].children) > 0 THEN TRUE
    ELSE IF ~CHECK_FOLDER_CONTENTS THEN nodes[node].type \in {BUCKET, FOLDER}
    ELSE IF node \in DOMAIN has_children_cache THEN has_children_cache[node]
    ELSE ~nodes[node].is_loaded /\ nodes[node].type \in {BUCKET, FOLDER}

\* hasChildren without its test of the switch: it probes whatever
\* CHECK_FOLDER_CONTENTS says
hasChildrenAlwaysProbes(node) ==
    /\ node \in Indexed
    /\ ~(Len(nodes[node].children) > 0)
    /\ node \notin DOMAIN has_children_cache
    /\ ~nodes[node].is_loaded /\ nodes[node].type \in {BUCKET, FOLDER}
    /\ node \notin checking_nodes
    /\ checking_nodes' = checking_nodes \cup {node}
    /\ probes' = (probe_count + 1 :> [node_id |-> node, phase |-> "queued"]) @@ probes
    /\ probe_count' = probe_count + 1
    /\ active_checkers' = (node :> (probe_count + 1)) @@ active_checkers
    /\ UNCHANGED <<nodes, CHECK_FOLDER_CONTENTS, config_CHECK_FOLDER_CONTENTS,
                   s3_resource, current_worker, has_children_cache,
                   node_map, runs, run_count, events, signals, brackets, consumer,
                   history>>

\* S3FileTreeModel.hasChildren for the valid index of node, on the path that
\* changes state: nothing is cached, the node is an unloaded container
\* without children and no probe is marked in flight for it
hasChildren(node) ==
    /\ node \in Indexed
    /\ ~(Len(nodes[node].children) > 0)
    /\ CHECK_FOLDER_CONTENTS
    /\ node \notin DOMAIN has_children_cache
    /\ ~nodes[node].is_loaded /\ nodes[node].type \in {BUCKET, FOLDER}
    /\ node \notin checking_nodes
    /\ checking_nodes' = checking_nodes \cup {node}
    /\ probes' = (probe_count + 1 :> [node_id |-> node, phase |-> "queued"]) @@ probes
    /\ probe_count' = probe_count + 1
    /\ active_checkers' = (node :> (probe_count + 1)) @@ active_checkers
    /\ UNCHANGED <<nodes, CHECK_FOLDER_CONTENTS, config_CHECK_FOLDER_CONTENTS,
                   s3_resource, current_worker, has_children_cache,
                   node_map, runs, run_count, events, signals, brackets, consumer,
                   history>>

\* a pool that starts every worker at once, whatever its thread count
PoolStartUnlimited(p) ==
    /\ p \in ProbeIds
    /\ probes[p].phase = "queued"
    /\ probes' = [probes EXCEPT ![p].phase = "running"]
    /\ UNCHANGED <<nodes, CHECK_FOLDER_CONTENTS, config_CHECK_FOLDER_CONTENTS,
                   s3_resource, current_worker, has_children_cache,
                   checking_nodes, active_checkers, node_map, runs, run_count,
                   probe_count, events, signals, brackets, consumer, history>>

\* QThreadPool: a queued worker starts when a thread of the pool is free
PoolStart(p) ==
    /\ p \in ProbeIds
    /\ probes[p].phase = "queued"
    /\ Cardinality({ q \in ProbeIds : probes[q].phase = "running" }) < maxThreadCount
    /\ probes' = [probes EXCEPT ![p].phase = "running"]
    /\ UNCHANGED <<nodes, CHECK_FOLDER_CONTENTS, config_CHECK_FOLDER_CONTENTS,
                   s3_resource, current_worker, has_children_cache,
                   checking_nodes, active_checkers, node_map, runs, run_count,
                   probe_count, events, signals, brackets, consumer, history>>

\* the first n strings of a sorted sequence (MaxKeys=n)
FirstKeys(q, n) == Range(SubSeq(q, 1, IF Len(q) < n THEN Len(q) ELSE n))

\* S3ChildrenCheckerWorker.run: the verdict it computes from the response
\* of list_objects_v2 over the keys the bucket holds
Verdict(node, keys) ==
    IF nodes[node].type = BUCKET
    THEN LET page == FirstKeys(SortedSeq(CommonPrefixes(keys, <<>>)
                                          \cup Contents(keys, <<>>)), 1)
         IN  page # {}
    ELSE LET marker == nodes[node].key \o <<"/">>
             page == FirstKeys(SortedSeq(CommonPrefixes(keys, marker)
                                          \cup Contents(keys, marker)), 2)
             contents == page \cap Contents(keys, marker)
             prefixes == page \cap CommonPrefixes(keys, marker)
             found == (\E k \in contents : k # marker) \/ prefixes # {}
         IN  IF Cardinality(contents) = 1 /\ prefixes = {} /\ contents = {marker}
             THEN FALSE ELSE found

\* the attributes an S3Service object has: those __init__ assigns and the
\* methods of the class
ServiceAttributes ==
    {"s3_session", "s3_resource", "set_credential", "list_buckets", "list_objects",
     "create_bucket", "create_folder", "delete_object"}

\* the slots of S3ChildrenCheckerCallback a worker can invoke
handle_result == <<"handle_result">>
handle_error == <<"handle_error">>

\* S3ChildrenCheckerWorker.run for node when the store holds keys and
\* answers: the queued call it makes.  client = self._s3_service.client
\* raises AttributeError when the service has no such attribute, and every
\* exception ends in handle_error(node_id).
CheckerCall(node, keys) ==
    IF "client" \in ServiceAttributes
    THEN [slot |-> handle_result, has_children |-> Verdict(node, keys)]
    ELSE [slot |-> handle_error, has_children |-> FALSE]

\* S3ChildrenCheckerWorker.run for node: the queued calls it can make, the
\* store answering list_objects_v2 or raising
CheckerCalls(node) ==
    { CheckerCall(node, s.keys) : s \in StoreContents }
      \cup { [slot |-> handle_error, has_children |-> FALSE] }

\* S3ChildrenCheckerWorker.run: handle_result(node_id, has_children) or
\* handle_error(node_id) is queued for the callback (items holds the slot);
\* S3ChildrenCheckerCallback emits finished(node_id, has_children) for the
\* former and finished(node_id, False) for the latter
CheckerRun(p) ==
    /\ p \in ProbeIds
    /\ probes[p].phase = "running"
    /\ probes' = [q \in ProbeIds \ {p} |-> probes[q]]
    /\ \E call \in CheckerCalls(probes[p].node_id) :
          events' = events \cup
              {Event("checked", p, call.slot, probes[p].node_id, call.has_children)}
    /\ UNCHANGED <<nodes, CHECK_FOLDER_CONTENTS, config_CHECK_FOLDER_CONTENTS,
                   s3_resource, current_worker,
                   has_children_cache, checking_nodes, active_checkers, node_map, runs,
                   run_count, probe_count, signals, brackets, consumer, history>>

\* an _on_children_checked that leaves the cache as it is
DropVerdict(cache, node_id, has_children) == cache

\* self._has_children_cache[node_id] = has_children
CacheVerdict(cache, node_id, has_children) == (node_id :> has_children) @@ cache

\* list.index(x) raises ValueError when x is not in the list
HasIndex(list, x) == x \in Range(list)

\* S3FileTreeModel._on_children_checked(node_id, has_children); expanded is
\* what tree_view.isExpanded answers for the node
_on_children_checked(e, expanded) ==
    LET node_id == e.node_id
        has_children == e.has_children
        parent == IF nodes[node_id].parent = -1 THEN Root ELSE nodes[node_id].parent
        grandparent == IF nodes[parent].parent = -1 THEN Root ELSE nodes[parent].parent
        \* the lookups that do not raise
        found == /\ node_id \in node_map
                 /\ HasIndex(nodes[parent].children, node_id)
                 /\ parent # Root => HasIndex(nodes[grandparent].children, parent)
        nodes2 == IF found /\ ~has_children
                  THEN [nodes EXCEPT ![node_id].is_loaded = TRUE] ELSE nodes
    IN  /\ e \in events
        /\ e.kind = "checked"
        /\ has_children_cache' = CacheVerdict(has_children_cache, node_id, has_children)
        /\ checking_nodes' = checking_nodes \ {node_id}
        /\ active_checkers' = [n \in DOMAIN active_checkers \ {node_id} |->
                                 active_checkers[n]]
        /\ nodes' = nodes2
        /\ brackets' = OpenAfter(brackets, IF found THEN <<End("layout")>> ELSE <<>>)
        /\ consumer' = consumer
        /\ history' = [history EXCEPT !.cleared = @ \ {node_id}]
        /\ IF found /\ has_children /\ expanded
           THEN _fetch_children(node_id, "_on_children_checked", {e})
           ELSE /\ events' = events \ {e}
                /\ UNCHANGED <<runs, run_count, current_worker, s3_resource>>
        /\ UNCHANGED <<CHECK_FOLDER_CONTENTS, config_CHECK_FOLDER_CONTENTS,
                       node_map, probes, probe_count, signals>>

\* ------------------------------------------------------- row operations
\* names a user types into the dialogs of global_create
BucketNames == {<<"a">>}
FolderNames == {<<"x">>}

\* global_create: the S3Node it builds for parent_node and the typed name
NewNode(parent_node, name) ==
    IF parent_node = Root
    THEN S3Object(name, BUCKET, name, NoneVal)
    ELSE LET selected == nodes[parent_node]
             folder_path ==
                IF selected.type = BUCKET THEN name
                ELSE IF selected.key # <<>> /\ selected.key # NoneVal
                     THEN RStripSlash(selected.key) \o <<"/">> \o name
                     ELSE name
             bucket_name == IF selected.type = BUCKET THEN selected.name
                            ELSE selected.bucket
         IN  S3Object(name, FOLDER, bucket_name, folder_path)

\* the S3Node global_create hands to appendRow: its parent is left at None
CreatedNode(parent_node, name) == S3Node(NewNode(parent_node, name), -1)

\* appendRow's check for an existing child of the same name and type
Exists(parent_node, new_node) ==
    \E i \in 1..Len(nodes[parent_node].children) :
        LET existing == nodes[nodes[parent_node].children[i]]
        IN  existing.name = new_node.name /\ existing.type = new_node.type

\* beginInsertRows(parent_index, row, row) of appendRow, row = len(children)
AppendedRowBegin(parent_node) ==
    Begin("insert", parent_node, Len(nodes[parent_node].children),
          Len(nodes[parent_node].children))

\* what appendRow returns: False from inside the loop over the existing
\* children, True after the insertion
appendRowReturns(parent_node, name) == ~Exists(parent_node, CreatedNode(parent_node, name))

\* S3FileTreeModel.appendRow(parent_index, new_node) as global_create calls
\* it: a bucket under root, a folder under a bucket or a folder
appendRow(parent_node, name) ==
    LET new_id == Cardinality(NodeIds)
        new_node == [CreatedNode(parent_node, name) EXCEPT !.parent = parent_node]
        nodes2 == IF Exists(parent_node, new_node)
                  THEN (new_id :> new_node) @@ nodes
                  ELSE (new_id :> new_node) @@
                       [nodes EXCEPT ![parent_node].children = Append(@, new_id)]
    IN  /\ parent_node = Root \/ parent_node \in Indexed
        /\ nodes[parent_node].type \in {BUCKET, FOLDER}
        /\ name \in (IF parent_node = Root THEN BucketNames ELSE FolderNames)
        /\ nodes' = nodes2
        /\ Notify(IF Exists(parent_node, new_node) THEN <<>>
                  ELSE <<AppendedRowBegin(parent_node), Mutate(parent_node),
                         End("insert")>>,
                  nodes2)
        /\ UNCHANGED <<CHECK_FOLDER_CONTENTS, config_CHECK_FOLDER_CONTENTS,
                       s3_resource, current_worker, has_children_cache,
                       checking_nodes, active_checkers, node_map, runs, run_count,
                       probes, probe_count, events, signals>>

\* del list[first:last+1] with 0-based bounds inside the list
DelRows(list, first, last) ==
    SubSeq(list, 1, first) \o SubSeq(list, last + 2, Len(list))

\* S3FileTreeModel.removeRow(row, parent) for a row of parent_node
removeRow(row, parent_node) ==
    LET nodes2 == IF 0 <= row /\ row < Len(nodes[parent_node].children)
                  THEN [nodes EXCEPT ![parent_node].children = DelRows(@, row, row)]
                  ELSE nodes
    IN  /\ parent_node = Root \/ parent_node \in Indexed
        /\ row \in 0..(Len(nodes[parent_node].children) - 1)
        /\ nodes' = nodes2
        /\ Notify(<<Begin("remove", parent_node, row, row), Mutate(parent_node),
                    End("remove")>>, nodes2)
        /\ UNCHANGED <<CHECK_FOLDER_CONTENTS, config_CHECK_FOLDER_CONTENTS,
                       s3_resource, current_worker, has_children_cache,
                       checking_nodes, active_checkers, node_map, runs, run_count,
                       probes, probe_count, events, signals>>

\* the longest selection global_delete is called with
MaxSelection == 2

\* tree_view.selectionModel().selectedRows(): the selected nodes in the order
\* of the selection, all of one type
Selections ==
    { sel \in UNION { [1..k -> Indexed] : k \in 1..MaxSelection } :
        /\ \A i, j \in 1..Len(sel) : i # j => sel[i] # sel[j]
        /\ \A i \in 1..Len(sel) : nodes[sel[i]].type = nodes[sel[1]].type }

\* S3FileTreeModel.parent(index) for the index of node n in tree ns: the node
\* of the parent index, Root for the invalid index
parentOf(ns, n) ==
    LET parent_node == ns[n].parent
    IN  IF parent_node = -1 \/ parent_node = Root THEN Root
        ELSE IF ns[parent_node].parent = -1 THEN Root
        ELSE IF HasIndex(ns[ns[parent_node].parent].children, parent_node)
             THEN parent_node ELSE Root

RECURSIVE DeleteEach(_, _, _, _, _)
\* the loop of global_delete from selection entry i on, with the rows the
\* indexes held when the selection was read: <<nodes, notifications>> when
\* the loop ends.  The service call of entry i raises when the store has
\* accepted as many requests as it is going to (accepted), when s3_resource
\* is None, and for a bucket always: S3Service has no delete_bucket, and the
\* exception ends the loop.
DeleteEach(st, sel, rows, i, accepted) ==
    IF i > Len(sel) THEN st
    ELSE LET ns == st[1]
             node == sel[i]
             raises == IF ns[node].type = BUCKET
                       THEN "delete_bucket" \notin ServiceAttributes
                       ELSE ~s3_resource \/ i > accepted
             parent_node == IF ns[node].type = BUCKET THEN Root ELSE parentOf(ns, node)
             removes == ns[node].type = BUCKET \/ parent_node # Root
             inside == 0 <= rows[i] /\ rows[i] < Len(ns[parent_node].children)
             ns2 == IF removes /\ inside
                    THEN [ns EXCEPT ![parent_node].children = DelRows(@, rows[i], rows[i])]
                    ELSE ns
             log == IF removes
                    THEN <<Begin("remove", parent_node, rows[i], rows[i])>>
                           \o (IF inside THEN <<Mutate(parent_node)>> ELSE <<>>)
                           \o <<End("remove")>>
                    ELSE <<>>
         IN  IF raises THEN st
             ELSE DeleteEach(<<ns2, st[2] \o log>>, sel, rows, i + 1, accepted)

\* global_delete(tree_view) with selection sel, confirmed in the dialog; the
\* store accepts the first accepted delete requests it receives
global_delete(sel, accepted) ==
    LET rows == [i \in 1..Len(sel) |-> rowOf(sel[i])]
        done == DeleteEach(<<nodes, <<>> >>, sel, rows, 1, accepted)
    IN  /\ sel \in Selections
        /\ accepted \in 0..Len(sel)
        /\ nodes' = done[1]
        /\ Notify(done[2], done[1])
        /\ UNCHANGED <<CHECK_FOLDER_CONTENTS, config_CHECK_FOLDER_CONTENTS,
                       s3_resource, current_worker, has_children_cache,
                       checking_nodes, active_checkers, node_map, runs, run_count,
                       probes, probe_count, events, signals>>

\* S3FileTreeModel.removeRows(row, count, parent) for a range of rows of
\* parent_node
removeRows(row, count, parent_node) ==
    LET nodes2 == [nodes EXCEPT ![parent_node].children =
                                    DelRows(@, row, row + count - 1)]
    IN  /\ parent_node = Root \/ parent_node \in Indexed
        /\ row \in 0..(Len(nodes[parent_node].children) - 1)
        /\ count \in 2..(Len(nodes[parent_node].children) - row)
        /\ nodes' = nodes2
        /\ Notify(<<Begin("remove", parent_node, row, row + count - 1),
                    Mutate(parent_node), End("remove")>>, nodes2)
        /\ UNCHANGED <<CHECK_FOLDER_CONTENTS, config_CHECK_FOLDER_CONTENTS,
                       s3_resource, current_worker, has_children_cache,
                       checking_nodes, active_checkers, node_map, runs, run_count,
                       probes, probe_count, events, signals>>

\* S3FileTreeModel.clearNode for the valid index of node
clearNode(node) ==
    LET nodes2 == [nodes EXCEPT ![node].children = <<>>, ![node].is_loaded = FALSE]
    IN  /\ node \in Indexed
        /\ nodes' = nodes2
        /\ checking_nodes' = checking_nodes \ {node}
        /\ brackets' = OpenAfter(brackets, <<>>)
        /\ consumer' = Derived(consumer, brackets, <<>>, RowCounts(nodes2))
        /\ history' = [history EXCEPT
                          !.unbracketed = @ \/ Unbracketed(brackets,
                              IF nodes[node].children # <<>>
                              THEN <<Mutate(node)>> ELSE <<>>),
                          !.cleared = @ \cup {node},
                          \* the Loader runs in flight for the cleared node
                          !.stale = @ \cup { w \in RunIds : /\ InFlight(w)
                                                            /\ runs[w].parent_node = node }]
        /\ UNCHANGED <<CHECK_FOLDER_CONTENTS, config_CHECK_FOLDER_CONTENTS,
                       s3_resource, current_worker, has_children_cache,
                       active_checkers, node_map, runs, run_count, probes, probe_count,
                       events, signals>>

\* ------------------------------------------------------------------ sort
NAME == 0
TYPE == 1
SIZE == 2
MODIFIED == 3
AscendingOrder == 0
DescendingOrder == 1

\* str.lower() of one character
Lower(c) == CASE c = "A" -> "a" [] c = "B" -> "b" [] c = "X" -> "x"
              [] c = "Y" -> "y" [] OTHER -> c

\* x.last_modified or datetime.min
ModifiedKey(x) ==
    IF nodes[x].last_modified = NoDate THEN datetime_min ELSE nodes[x].last_modified

\* key(x) < key(y) for the key function sort() uses for column
KeyLess(column, x, y) ==
    CASE column = NAME ->
            LexLess([i \in 1..Len(nodes[x].name) |-> Lower(nodes[x].name[i])],
                    [i \in 1..Len(nodes[y].name) |-> Lower(nodes[y].name[i])])
      [] column = TYPE ->
            \* type.value: "Bucket" < "File" < "Folder"
            LET rank(t) == CASE t = BUCKET -> 0 [] t = FILE -> 1 [] OTHER -> 2
            IN  rank(nodes[x].type) < rank(nodes[y].type)
      [] column = SIZE -> nodes[x].size < nodes[y].size
      [] OTHER -> ModifiedKey(x).t < ModifiedKey(y).t

\* list.sort raises TypeError: ordering the keys of the list compares a naive
\* datetime with a timezone-aware one, which Python refuses.  Every sort of
\* a list that holds both kinds has to compare two keys of different kinds.
Raises(list, column) ==
    /\ column = MODIFIED
    /\ \E i, j \in 1..Len(list) : ModifiedKey(list[i]).tz # ModifiedKey(list[j]).tz

RECURSIVE ListSort(_, _, _)
\* list.sort(key=..., reverse=...): stable, equal keys keep their order
ListSort(list, column, reverse) ==
    IF list = <<>> THEN <<>>
    ELSE LET x == list[Len(list)]
             front == ListSort(SubSeq(list, 1, Len(list) - 1), column, reverse)
             \* x goes behind every element that does not sort after it
             keep == { i \in 1..Len(front) :
                         IF reverse THEN ~KeyLess(column, front[i], x)
                         ELSE ~KeyLess(column, x, front[i]) }
             k == Cardinality(keep)
         IN  SubSeq(front, 1, k) \o <<x>> \o SubSeq(front, k + 1, Len(front))

RECURSIVE MutateAll(_)
MutateAll(ps) ==
    IF ps = {} THEN <<>>
    ELSE LET p == CHOOSE q \in ps : TRUE IN <<Mutate(p)>> \o MutateAll(ps \ {p})

RECURSIVE sort_children(_, _, _, _)
RECURSIVE SortEach(_, _, _, _, _)
\* sort_children(children) of sort() for the children list of node p: st.ns
\* holds the nodes so far and st.failed the node whose list raised, -1 while
\* none has; once a sort has raised, the exception unwinds the recursion
sort_children(st, p, column, reverse) ==
    IF st.failed # -1 \/ st.ns[p].children = <<>> THEN st
    ELSE IF Raises(st.ns[p].children, column) THEN [st EXCEPT !.failed = p]
    ELSE LET sorted == ListSort(st.ns[p].children, column, reverse)
         IN  SortEach([st EXCEPT !.ns[p].children = sorted], sorted, 1, column, reverse)

\* for child in children: sort_children(child.children), from the i-th on
SortEach(st, children, i, column, reverse) ==
    IF i > Len(children) THEN st
    ELSE SortEach(sort_children(st, children[i], column, reverse),
                  children, i + 1, column, reverse)

\* the orders a list can be left in by a sort that raised: list.sort keeps
\* the elements but promises nothing about their order
Orders(list) ==
    { q \in [1..Len(list) -> Range(list)] : Range(q) = Range(list) }

\* S3FileTreeModel.sort(column, order): sort_children walks down from
\* root.children, so every list reachable from root is sorted; when a
\* list.sort raises, the exception leaves sort() before layoutChanged
sort(column, order) ==
    LET st == sort_children([ns |-> nodes, failed |-> -1], Root, column,
                            order = DescendingOrder)
    IN  /\ column \in {NAME, TYPE, SIZE, MODIFIED}
        /\ order \in {AscendingOrder, DescendingOrder}
        /\ \E left \in (IF st.failed = -1 THEN {<<>>}
                        ELSE Orders(nodes[st.failed].children)) :
              LET nodes2 == IF st.failed = -1 THEN st.ns
                            ELSE [st.ns EXCEPT ![st.failed].children = left]
                  moved == { n \in NodeIds : nodes2[n].children # nodes[n].children }
              IN  /\ nodes' = nodes2
                  /\ Notify(<<Begin("layout", Root, 0, 0)>> \o MutateAll(moved)
                              \o (IF st.failed = -1 THEN <<End("layout")>> ELSE <<>>),
                            nodes2)
        /\ UNCHANGED <<CHECK_FOLDER_CONTENTS, config_CHECK_FOLDER_CONTENTS,
                       s3_resource, current_worker, has_children_cache,
                       checking_nodes, active_checkers, node_map, runs, run_count,
                       probes, probe_count, events, signals>>

Init ==
    /\ nodes = (Root :> S3Node(S3Object(<<>>, FOLDER, NoneVal, NoneVal), -1))
    /\ CHECK_FOLDER_CONTENTS \in BOOLEAN
    /\ config_CHECK_FOLDER_CONTENTS = CHECK_FOLDER_CONTENTS
    /\ s3_resource = TRUE
    /\ current_worker = 0
    /\ has_children_cache = <<>>
    /\ checking_nodes = {}
    /\ active_checkers = <<>>
    /\ node_map = {}
    /\ runs = <<>>
    /\ run_count = 0
    /\ probes = <<>>
    /\ probe_count = 0
    /\ events = {}
    /\ signals = [loading_started |-> 0, loading_finished |-> 0,
                  view_loading_started |-> 0, view_loading_finished |-> 0,
                  error_occurred |-> 0]
    /\ brackets = <<>>
    /\ consumer = (Root :> 0)
    /\ history = [interleaved |-> FALSE, unbracketed |-> FALSE, cleared |-> {},
                  stale |-> {}]
    /\ op_count = 0

\* a call made from outside the engine: by the user through the view and the
\* controllers, or by the view itself
Call(A) == op_count < MaxOps /\ op_count' = op_count + 1 /\ A

\* a step of a background thread, or a queued call taken by the engine thread
Step(A) == A /\ UNCHANGED op_count

\* the rows and row counts a call can name
Rows == 0..(2 * MaxOps)

Next ==
    \/ Call(refresh /\ UNCHANGED config_CHECK_FOLDER_CONTENTS)
    \/ \E state \in BOOLEAN : Call(_on_check_empty_changed(state))
    \/ \E n \in NodeIds : Call(fetchMore(n))
    \/ \E n \in NodeIds : Call(_handle_expansion(n))
    \/ \E n \in NodeIds : Call(hasChildren(n))
    \/ \E n \in NodeIds, name \in BucketNames \cup FolderNames : Call(appendRow(n, name))
    \/ \E n \in NodeIds, row \in Rows : Call(removeRow(row, n))
    \/ \E n \in NodeIds, row \in Rows, count \in Rows : Call(removeRows(row, count, n))
    \/ \E n \in NodeIds : Call(clearNode(n))
    \/ \E sel \in Selections, accepted \in 0..MaxSelection : Call(global_delete(sel, accepted))
    \/ \E column \in {NAME, TYPE, SIZE, MODIFIED},
          order \in {AscendingOrder, DescendingOrder} :
          Call(sort(column, order))
    \/ \E p \in ProbeIds : Step(PoolStart(p))
    \/ \E p \in ProbeIds : Step(CheckerRun(p))
    \/ \E e \in events, expanded \in BOOLEAN : Step(_on_children_checked(e, expanded))
    \/ \E w \in RunIds : Step(LoaderBegin(w))
    \/ \E w \in RunIds : Step(LoaderEnd(w))
    \/ \E e \in events : Step(Deliver(e))

Spec == Init /\ [][Next]_vars

\* ---------------------------------------------------------------- claims
\* no load is in flight: every worker still connected has had its result served
Quiescent == \A w \in RunIds : runs[w].delivered

\* the entries the children of parent p show, in order
Shown(ns, p) ==
    [i \in 1..Len(ns[p].children) |->
        [S3Object(ns[ns[p].children[i]].name, ns[ns[p].children[i]].type,
                  ns[ns[p].children[i]].bucket, ns[ns[p].children[i]].key)
           EXCEPT !.size = ns[ns[p].children[i]].size,
                  !.last_modified = ns[ns[p].children[i]].last_modified]]

\* the queued finished/error emission e is served by this step: both slots
\* emit loading_finished once
Served(e) ==
    /\ e \in events
    /\ e \notin events'
    /\ e.kind \in {"finished", "error"}
    /\ signals'.loading_finished = signals.loading_finished + 1

\* C1: when requestExpand (fetchMore or _handle_expansion) is issued twice for
\* the same unloaded container before the first load completes, exactly one
\* Loader run is started for that node: no run started by requestExpand
\* supersedes a run that requestExpand had started for the same node and
\* that was still in flight.
C1_IdempotentExpand ==
    \A w \in RunIds :
        runs[w].origin \in RequestExpand =>
            ~(runs[w].supersedes # 0 /\ runs[w].superseded_origin \in RequestExpand)

\* C2: when run A for parent P is superseded by run B for P, nothing of A is
\* applied or surfaced and the children of P become exactly B's result: a
\* result or an error that is served comes from the current worker, never
\* from a worker that has been cancelled, and a served result is what the
\* parent's children show afterwards.
C2_StaleDataDiscarded ==
    [][\A e \in events :
          Served(e) =>
              /\ e.src = current_worker
              /\ e.kind = "finished" =>
                    Shown(nodes', runs[e.src].parent_node) = e.items]_vars

\* a run that superseded an in-flight run for the same parent has had its
\* non-empty result applied
C2_Witness ==
    \E w \in RunIds :
        /\ runs[w].supersedes # 0
        /\ runs[w].delivered
        /\ nodes[runs[w].parent_node].children # <<>>

\* C3: after any sequence of load results, appendRow, removeRow/removeRows,
\* clearNode, sort and load_buckets, the row count a consumer derives for a
\* parent from the notifications equals the length of the parent's children
\* list, which is what rowCount returns, whenever no bracket is open.
C3_NoTornState ==
    brackets = <<>> =>
        \A n \in NodeIds : InTree(n) => consumer[n] = Len(nodes[n].children)

\* C4: every loading_started is matched by exactly one loading_finished, for
\* the model's signals and for the view's: once no load is in flight, as
\* many loading_finished as loading_started have been emitted.
C4_StartedMatchedByFinished ==
    Quiescent =>
        /\ signals.loading_finished = signals.loading_started
        /\ signals.view_loading_finished = signals.view_loading_started

\* C5: in every reachable state no children list holds two entries with the
\* same (name, type).
C5_NoDuplicateSiblings ==
    \A n \in NodeIds :
        \A i, j \in 1..Len(nodes[n].children) :
            i # j =>
                \/ nodes[nodes[n].children[i]].name # nodes[nodes[n].children[j]].name
                \/ nodes[nodes[n].children[i]].type # nodes[nodes[n].children[j]].type

\* C6: every change to the length or order of a children list happens
\* while a bracket addressing that parent is open.
C6_MutationsBracketed == ~history.unbracketed

\* C7: every begin notification is followed by its matching end before any
\* other begin is emitted: no begin is emitted while a bracket is open, and
\* no bracket is open once no load is in flight.
C7_BracketsMatched == ~history.interleaved /\ (Quiescent => brackets = <<>>)

\* C8: in every state where the cache holds NoChildren (False) for node N
\* and clearNode(N) has not been called since that verdict, canFetchMore(N)
\* returns false.
C8_CacheConsistency ==
    \A n \in Indexed :
        (/\ n \in DOMAIN has_children_cache
         /\ ~has_children_cache[n]
         /\ n \notin history.cleared) => ~canFetchMore(n)

\* the cache holds NoChildren for an unloaded container that no probe is
\* checking and that has not been cleared: only the cache keeps it from
\* being fetched
C8_Witness ==
    \E n \in Indexed :
        /\ n \in DOMAIN has_children_cache
        /\ ~has_children_cache[n]
        /\ n \notin history.cleared
        /\ n \notin checking_nodes
        /\ can_fetch_more(n)

\* C9: after clearNode(N), N.is_loaded is false, N.children is empty and
\* the cache has no entry for N.
C9_ClearNodeResets ==
    [][\A n \in NodeIds :
          (n \in history'.cleared /\ n \notin history.cleared) =>
              /\ ~nodes'[n].is_loaded
              /\ nodes'[n].children = <<>>
              /\ n \notin DOMAIN has_children_cache']_vars

\* C10: once a probe has delivered NoChildren for container C, a later
\* requestExpand(C), by fetchMore or by _handle_expansion, starts no Loader
\* run.
C10_NoChildrenExpandIsNoOp ==
    \A w \in RunIds : runs[w].origin \in RequestExpand => ~runs[w].no_children

\* rows first..last can be inserted into a list of count rows: the range is
\* not empty and starts inside the list or right behind it
ValidInsert(b, count) == 0 <= b.first /\ b.first <= count /\ b.first <= b.last

\* C11: for every bucket list the store returns, the empty one included,
\* when the result of load_buckets is served on a root without children,
\* root.children is that list in store order, root.is_loaded is true and the
\* insert bracket emitted addresses a valid row range.
C11_FreshLoad ==
    [][\A e \in events :
          (/\ Served(e)
           /\ e.kind = "finished"
           /\ runs[e.src].parent_node = Root
           /\ nodes[Root].children = <<>>) =>
              /\ Shown(nodes', Root) = e.items
              /\ nodes'[Root].is_loaded
              /\ ValidInsert(LoadedRowsBegin(Root, e.items), 0)]_vars

\* the step requests a load: it creates Loader run w
Requested(w) == w \in RunIds' \ RunIds

\* C12: a load that fails in the store leaves the tree as it was before the
\* load was requested.  Every load can fail, so (a) the step that requests a
\* load of P, by requestExpand or by load_buckets, changes neither P's
\* children nor P.is_loaded, and (b) the step that serves the failure changes
\* no node, emits error_occurred once and loading_finished once.
C12_FailureLeavesTree ==
    [][/\ \A w \in RunIds' :
             Requested(w) =>
                /\ nodes'[runs'[w].parent_node].children
                     = nodes[runs'[w].parent_node].children
                /\ nodes'[runs'[w].parent_node].is_loaded
                     = nodes[runs'[w].parent_node].is_loaded
       /\ \A e \in events :
             (Served(e) /\ e.kind = "error") =>
                /\ nodes' = nodes
                /\ signals'.error_occurred = signals.error_occurred + 1
                /\ signals'.loading_finished = signals.loading_finished + 1]_vars

\* C13: appendRow(parent, newNode) with a child of the same (name, type)
\* already under parent returns False, emits no notification and changes
\* neither the tree nor newNode; otherwise it returns True and appends newNode
\* as the last child of parent with newNode.parent = parent, inside one
\* insert bracket addressing row len(children).
C13_AppendRow ==
    [][\A p \in NodeIds : \A name \in BucketNames \cup FolderNames :
          appendRow(p, name) =>
            LET newNode == Cardinality(NodeIds)
            IN  IF Exists(p, CreatedNode(p, name))
                THEN /\ ~appendRowReturns(p, name)
                     /\ brackets' = brackets
                     /\ \A n \in NodeIds : consumer'[n] = consumer[n]
                     /\ \A n \in NodeIds : nodes'[n] = nodes[n]
                     /\ nodes'[newNode] = CreatedNode(p, name)
                ELSE /\ appendRowReturns(p, name)
                     /\ nodes'[p].children = Append(nodes[p].children, newNode)
                     /\ \A n \in NodeIds \ {p} : nodes'[n] = nodes[n]
                     /\ nodes'[newNode].parent = p
                     /\ AppendedRowBegin(p).first = Len(nodes[p].children)
                     /\ AppendedRowBegin(p).last = Len(nodes[p].children)
                     /\ brackets' = brackets
                     /\ consumer'[p] = consumer[p] + 1]_vars

\* the verdict e of a probe is handed to _on_children_checked by this step
Checked(e) == e \in events /\ e.kind = "checked" /\ e \notin events'

\* node n was removed from the tree, or cleared and not probed again, after
\* the probe that is now reporting on it was requested
Dropped(n) == ~InTree(n) \/ n \notin checking_nodes

\* C14: when node N was removed from the tree or cleared while a probe for N
\* was in flight, the probe's verdict is discarded on arrival: no
\* existence-cache entry is written for N and N.is_loaded is not changed.
C14_VerdictDiscarded ==
    [][\A e \in events :
          (Checked(e) /\ Dropped(e.node_id)) =>
              /\ has_children_cache' = has_children_cache
              /\ nodes'[e.node_id].is_loaded = nodes[e.node_id].is_loaded]_vars

RECURSIVE Subtree(_)
\* node n and every node below it
Subtree(n) ==
    {n} \cup UNION { Subtree(nodes[n].children[i]) : i \in 1..Len(nodes[n].children) }

\* the nodes that leave the tree when count rows from row on are deleted
\* from the children of p
Removed(p, row, count) ==
    UNION { Subtree(nodes[p].children[i]) : i \in (row + 1)..(row + count) }

\* the engine keeps no bookkeeping entry for node n after the step
Forgotten(n) ==
    /\ n \notin DOMAIN has_children_cache'
    /\ n \notin checking_nodes'
    /\ n \notin DOMAIN active_checkers'
    /\ n \notin node_map'

\* C15: after removeRow/removeRows has removed node N from its parent, no
\* existence-cache entry, in-flight-probe marker (_checking_nodes,
\* _active_checkers) or identity-map entry remains for N or for any node in
\* N's subtree.
C15_RemovedForgotten ==
    [][\A p \in NodeIds : \A row \in Rows :
          /\ removeRow(row, p) => \A n \in Removed(p, row, 1) : Forgotten(n)
          /\ \A count \in Rows :
                removeRows(row, count, p) =>
                    \A n \in Removed(p, row, count) : Forgotten(n)]_vars

\* C16: when parent P was cleared (clearNode) or taken out of the tree
\* (removeRow/removeRows, or replaced by load_buckets) while a Loader run for P
\* was in flight and no new requestExpand(P) followed, the run's result is not
\* applied when it arrives: P's children and is_loaded stay as they are and
\* no insert bracket is emitted for P.
C16_OrphanedResultDropped ==
    [][\A e \in events :
          (/\ Served(e)
           /\ e.kind = "finished"
           /\ \/ ~InTree(runs[e.src].parent_node)
              \/ e.src \in history.stale) =>
              /\ nodes'[runs[e.src].parent_node].children
                   = nodes[runs[e.src].parent_node].children
              /\ nodes'[runs[e.src].parent_node].is_loaded
                   = nodes[runs[e.src].parent_node].is_loaded
              /\ brackets' = brackets
              /\ consumer'[runs[e.src].parent_node]
                   = consumer[runs[e.src].parent_node]]_vars

\* the Loader runs for parent p whose result can still be applied: connected
\* and not served yet
Applicable(p) == { w \in RunIds : InFlight(w) /\ runs[w].parent_node = p }

\* C17: in every reachable state at most one Loader run whose result can
\* still be applied is in flight for any given parent node, and every queued
\* result or error belongs to such a run; the step that starts a new run for
\* a parent cancels the run that was in flight for it.
C17_OneRunPerParent ==
    [][/\ \A p \in NodeIds' : Cardinality(Applicable(p))' <= 1
       /\ \A e \in events' :
             e.kind \in {"finished", "error"} => InFlight(e.src)'
       /\ \A w \in RunIds' :
             Requested(w) =>
                \A v \in Applicable(runs'[w].parent_node) :
                    /\ v \notin RunIds'
                    /\ \A e \in events' : e.src = v => e.kind = "checked"]_vars

\* a run was started for a parent while another run for that parent was in
\* flight, and the new run is itself still in flight
C17_Witness ==
    \E w \in RunIds : runs[w].supersedes # 0 /\ InFlight(w)

\* C18: loads of different parents do not disturb each other: when
\* requestExpand(Q) starts a run while a Loader run for a different parent P
\* is in flight, P's run is not discarded: it stays connected, and what it
\* has queued stays queued, so that P can still receive its own result.
C18_IndependentLoads ==
    [][\A w \in RunIds' :
          (Requested(w) /\ runs'[w].origin \in RequestExpand) =>
              \A v \in RunIds :
                  (InFlight(v) /\ runs[v].parent_node # runs'[w].parent_node) =>
                      /\ v \in RunIds'
                      /\ \A e \in events : e.src = v => e \in events']_vars

\* --------------------------------------------- the prober's thread pool
\* The view asks hasChildren for every row it paints.  To see the pool at its
\* limit the engine is started from the state it is in after load_buckets has
\* loaded a store of PoolSize buckets with CHECK_FOLDER_CONTENTS set, and
\* only the prober's handlers run.
PoolSize == 5

\* the bucket names of that store: "a", "aa", "aaa", ...
PoolBuckets == [i \in 1..PoolSize |-> [j \in 1..i |-> "a"]]

\* the state after refresh() and the delivery of the bucket list
InitPool ==
    /\ nodes = [n \in 0..PoolSize |->
                  IF n = Root
                  THEN [S3Node(S3Object(<<>>, FOLDER, NoneVal, NoneVal), -1)
                          EXCEPT !.children = [i \in 1..PoolSize |-> i],
                                 !.is_loaded = TRUE]
                  ELSE S3Node(BucketObjects(PoolBuckets)[n], Root)]
    /\ CHECK_FOLDER_CONTENTS = TRUE
    /\ config_CHECK_FOLDER_CONTENTS = CHECK_FOLDER_CONTENTS
    /\ s3_resource = TRUE
    /\ current_worker = 1
    /\ has_children_cache = <<>>
    /\ checking_nodes = {}
    /\ active_checkers = <<>>
    /\ node_map = 1..PoolSize
    /\ runs = (1 :> [parent_node |-> Root, bucket |-> NoneVal, prefix |-> NoneVal,
                      parent_index |-> 0 - 1,
                      phase |-> "done", is_running |-> FALSE, delivered |-> TRUE,
                      origin |-> "load_buckets", supersedes |-> 0,
                      superseded_origin |-> "", no_children |-> FALSE])
    /\ run_count = 1
    /\ probes = <<>>
    /\ probe_count = 0
    /\ events = {}
    /\ signals = [loading_started |-> 1, loading_finished |-> 1,
                  view_loading_started |-> 2, view_loading_finished |-> 1,
                  error_occurred |-> 0]
    /\ brackets = <<Begin("reset", Root, 0, 0)>>
    /\ consumer = [n \in 0..PoolSize |-> IF n = Root THEN PoolSize ELSE 0]
    /\ history = [interleaved |-> TRUE, unbracketed |-> FALSE, cleared |-> {},
                  stale |-> {}]
    /\ op_count = 1

\* the prober at work on collapsed rows; the view lays its rows out from the
\* top, so hasChildren is asked for the buckets in row order
NextPool ==
    \/ \E n \in NodeIds : n = probe_count + 1 /\ Step(hasChildren(n))
    \/ \E p \in ProbeIds : Step(PoolStart(p))
    \/ \E p \in ProbeIds : Step(CheckerRun(p))
    \/ \E e \in events : Step(_on_children_checked(e, FALSE))

SpecPool == InitPool /\ [][NextPool]_vars

\* the probes whose run() is executing on a thread of the pool
Executing == { p \in ProbeIds : probes[p].phase = "running" }

\* C19: in every reachable state at most K = 4 existence probes are executing
\* concurrently, however many containers hasChildren has been asked about;
\* the probes beyond that wait in the pool's queue: every container marked as
\* being checked has its worker queued or executing, or its verdict on the
\* way to the engine thread.
C19_PoolBound ==
    /\ Cardinality(Executing) <= 4
    /\ \A n \in checking_nodes :
          \/ \E p \in ProbeIds : probes[p].node_id = n
          \/ \E e \in events : e.kind = "checked" /\ e.node_id = n

\* the pool is full and a further probe waits in its queue
C19_Witness ==
    /\ Cardinality(Executing) = 4
    /\ \E p \in ProbeIds : probes[p].phase = "queued"

\* ------------------------------------------------------ sorting a tree
\* sort() is a function of the tree.  It is applied, over and over, to the
\* trees the engine holds after load_buckets has loaded the buckets "b" and
\* "a" and fetchMore has loaded bucket "b", for every set of keys that bucket
\* can hold out of SortKeys: files "B", "a", "ab" and folder "x".
SortKeys == { <<"B">>, <<"a">>, <<"a", "b">>, <<"x", "/", "a">> }

\* the state after refresh(), the bucket list, fetchMore(bucket b) and the
\* listing of bucket b holding keys
Loaded(keys) ==
    LET buckets == BucketObjects(<< <<"b">>, <<"a">> >>)
        items == list_objects(keys, <<"b">>, <<>>)
        last == 2 + Len(items)
    IN  /\ nodes = [n \in 0..last |->
                      CASE n = Root ->
                              [S3Node(S3Object(<<>>, FOLDER, NoneVal, NoneVal), -1)
                                 EXCEPT !.children = <<1, 2>>, !.is_loaded = TRUE]
                        [] n = 1 ->
                              [S3Node(buckets[1], Root)
                                 EXCEPT !.children = [i \in 1..Len(items) |-> 2 + i],
                                        !.is_loaded = TRUE]
                        [] n = 2 -> S3Node(buckets[2], Root)
                        [] OTHER -> S3Node(items[n - 2], 1)]
        /\ node_map = 1..last
        /\ consumer = [n \in 0..last |->
                         CASE n = Root -> 2 [] n = 1 -> Len(items) [] OTHER -> 0]

InitSort ==
    /\ \E keys \in SUBSET SortKeys : Loaded(keys)
    /\ CHECK_FOLDER_CONTENTS = FALSE
    /\ config_CHECK_FOLDER_CONTENTS = CHECK_FOLDER_CONTENTS
    /\ s3_resource = TRUE
    /\ current_worker = 2
    /\ has_children_cache = <<>>
    /\ checking_nodes = {}
    /\ active_checkers = <<>>
    /\ runs = (2 :> [parent_node |-> 1, bucket |-> <<"b">>, prefix |-> <<>>,
                      parent_index |-> 0,
                      phase |-> "done", is_running |-> FALSE, delivered |-> TRUE,
                      origin |-> "fetchMore", supersedes |-> 0,
                      superseded_origin |-> "", no_children |-> FALSE])
    /\ run_count = 2
    /\ probes = <<>>
    /\ probe_count = 0
    /\ events = {}
    /\ signals = [loading_started |-> 2, loading_finished |-> 2,
                  view_loading_started |-> 3, view_loading_finished |-> 2,
                  error_occurred |-> 0]
    /\ brackets = <<Begin("reset", Root, 0, 0)>>
    /\ history = [interleaved |-> TRUE, unbracketed |-> FALSE, cleared |-> {},
                  stale |-> {}]
    /\ op_count = 2

\* the user clicks a header section of the view
NextSort ==
    \E column \in {NAME, TYPE, SIZE, MODIFIED},
       order \in {AscendingOrder, DescendingOrder} : Call(sort(column, order))

SpecSort == InitSort /\ [][NextSort]_vars

\* list is ordered by the key of column in the direction of order
Ordered(list, column, order) ==
    /\ ~Raises(list, column)
    /\ \A i, j \in 1..Len(list) :
          i < j => IF order = DescendingOrder
                   THEN ~KeyLess(column, list[i], list[j])
                   ELSE ~KeyLess(column, list[j], list[i])

\* C20: sort(column, order) emits layoutAboutToBeChanged before it reorders
\* anything and layoutChanged after all reordering, so that no layout bracket
\* is left open; afterwards the children list of every node at every depth
\* is ordered by the chosen key (name case-insensitively, type, size or
\* last-modified) in the chosen direction, and each list is a permutation of
\* its previous contents with every child's parent and identity unchanged.
C20_SortOrdersEveryList ==
    [][\A column \in {NAME, TYPE, SIZE, MODIFIED} :
          \A order \in {AscendingOrder, DescendingOrder} :
              sort(column, order) =>
                 /\ brackets' = brackets
                 /\ \A n \in NodeIds :
                       /\ InTree(n) => Ordered(nodes'[n].children, column, order)
                       /\ Len(nodes'[n].children) = Len(nodes[n].children)
                       /\ Range(nodes'[n].children) = Range(nodes[n].children)
                       /\ nodes'[n] = [nodes[n] EXCEPT !.children = nodes'[n].children]]_vars

C22_LoadedExpandIsNoOp ==
    [][\A n \in NodeIds :
          nodes[n].is_loaded => ~(fetchMore(n) \/ _handle_expansion(n))]_vars

\* the existence cache holds NoChildren for node n and clearNode(n) has not
\* been called since that verdict
NoChildren(n) ==
    /\ n \in DOMAIN has_children_cache
    /\ ~has_children_cache[n]
    /\ n \notin history.cleared

\* C23: a NoChildren verdict suppresses pending loads: while the cache holds
\* NoChildren for node N and clearNode(N) has not been called, no Loader
\* result is applied to N, whether the run was started before or after the
\* verdict arrived: serving a result for N changes neither N's children nor
\* N.is_loaded.
C23_NoChildrenSuppressesLoad ==
    [][\A e \in events :
          (/\ Served(e)
           /\ e.kind = "finished"
           /\ NoChildren(runs[e.src].parent_node)) =>
              /\ nodes'[runs[e.src].parent_node].children
                   = nodes[runs[e.src].parent_node].children
              /\ nodes'[runs[e.src].parent_node].is_loaded
                   = nodes[runs[e.src].parent_node].is_loaded]_vars

\* C24: with the probing switch off (CHECK_FOLDER_CONTENTS false) no
\* existence probe is ever dispatched, hasChildren returns true for every
\* bucket and folder, loaded or not, and false for every file without
\* children.
C24_SwitchOff ==
    ~CHECK_FOLDER_CONTENTS =>
        /\ probe_count = 0
        /\ checking_nodes = {}
        /\ \A n \in Indexed :
              /\ nodes[n].type \in {BUCKET, FOLDER} => hasChildrenReturns(n)
              /\ (nodes[n].type = FILE /\ nodes[n].children = <<>>)
                    => ~hasChildrenReturns(n)

\* with the switch off the tree holds a loaded folder, an unloaded bucket
\* and a file
C24_Witness ==
    /\ ~CHECK_FOLDER_CONTENTS
    /\ \E n \in Indexed : nodes[n].type = FOLDER /\ nodes[n].is_loaded
    /\ \E n \in Indexed : nodes[n].type = BUCKET /\ ~nodes[n].is_loaded
    /\ \E n \in Indexed : nodes[n].type = FILE

\* worker v has been started and run() has not returned: its store call is
\* still to come or under way
Pending(v) == runs[v].phase \in {"started", "running"}

\* C25: expand requests never block the engine thread on background work:
\* the step in which fetchMore, _fetch_children or load_buckets start a
\* run does not contain the return of an earlier run's store call, so a
\* worker whose run() had not returned before the step is in the same
\* position after it.
C25_RequestsDoNotWait ==
    [][\A w \in RunIds' :
          Requested(w) =>
              \A v \in RunIds :
                  Pending(v) => v \in RunIds' /\ runs'[v].phase = runs[v].phase]_vars

\* C26: cancellation is idempotent: in every state of the current worker
\* (none, not yet scheduled, inside run(), finished, served) _cleanup_worker
\* leaves _current_worker empty, and calling it again, once or twice more,
\* leaves the engine exactly as the first call left it.
C26_CleanupIdempotent ==
    \A c \in CleanupWorker(current_worker, runs, events, s3_resource) :
        /\ c[3] = 0
        /\ CleanupWorker(c[3], c[1], c[2], c[4]) = {c}
        /\ \A d \in CleanupWorker(c[3], c[1], c[2], c[4]) :
              CleanupWorker(d[3], d[1], d[2], d[4]) = {c}

\* the current worker is inside run() with its result neither queued nor
\* served: the first _cleanup_worker has a thread to stop
C26_Witness ==
    /\ current_worker \in RunIds
    /\ runs[current_worker].phase = "running"
    /\ \A e \in events : e.src # current_worker

\* C27: a node's is_loaded flag changes from false to true only in the step
\* that applies the result of a completed Loader run for that node; no other
\* step, in particular the arrival of a probe verdict, sets it.
C27_LoadedOnlyByLoader ==
    [][\A n \in NodeIds :
          (~nodes[n].is_loaded /\ nodes'[n].is_loaded) =>
              \E e \in events :
                  /\ Served(e)
                  /\ e.kind = "finished"
                  /\ runs[e.src].parent_node = n]_vars

\* the number of rows of p's children list that hold node n
Occurrences(p, n) ==
    Cardinality({ i \in 1..Len(nodes[p].children) : nodes[p].children[i] = n })

\* every entry c of the children list of P has c.parent = P
ChildrenPointBack ==
    \A p \in NodeIds : \A c \in Range(nodes[p].children) : nodes[c].parent = p

\* C28: tree linkage; in every reachable state every node whose parent
\* reference is not None appears exactly once in that parent's children list,
\* and every entry of a node's children list has that node as its parent.
C28_TreeLinkage ==
    /\ \A n \in NodeIds :
          nodes[n].parent # -1 => Occurrences(nodes[n].parent, n) = 1
    /\ ChildrenPointBack

\* a load has failed with a store error (error_occurred was emitted for it);
\* nothing in the model configures the credentials again
LoadFailed == signals.error_occurred > 0

\* C29: store failures are recoverable; a Loader run started by a later
\* request (requestExpand or refresh) after a load failed with a store error
\* ends with finished(nodes) when the store answers its call normally: a
\* listing of the store is among the outcomes of every run not yet completed.
C29_StoreFailuresRecoverable ==
    \A w \in RunIds :
        (LoadFailed /\ runs[w].phase \in {"started", "running"}) =>
            \E e \in Emissions(w) : e.kind = "finished"

\* the (name, type) of node c occurs in the listing items
Listed(c, items) ==
    \E i \in 1..Len(items) : items[i].name = nodes[c].name /\ items[i].type = nodes[c].type

\* C30: load results are merged, not substituted; when a successful load
\* result is applied to a parent that already has children, every existing
\* child whose (name, type) occurs in the result stays in the children list
\* as the same node, and is_loaded of the parent is true afterwards.
C30_LoadResultsMerged ==
    [][\A e \in events :
          (Served(e) /\ e.kind = "finished") =>
              LET P == runs[e.src].parent_node
              IN  /\ \A c \in Range(nodes[P].children) :
                        Listed(c, e.items) => c \in Range(nodes'[P].children)
                  /\ nodes'[P].is_loaded]_vars

\* C31: a failed existence probe records NoChildren; the call queued by a
\* failed probe is handle_error, it carries has_children = False, and the
\* step that serves it leaves the cache entry of the node at False and the
\* node outside the set of probes in flight.
C31_ProbeFailureRecordsNoChildren ==
    [][\A e \in events :
          (Checked(e) /\ e.items = handle_error) =>
              /\ ~e.has_children
              /\ e.node_id \in DOMAIN has_children_cache'
              /\ ~has_children_cache'[e.node_id]
              /\ e.node_id \notin checking_nodes']_vars

\* a failed probe has been served: its verdict is cached and no probe for
\* the node is in flight
C31_Witness ==
    \E n \in DOMAIN has_children_cache :
        /\ ~has_children_cache[n]
        /\ n \notin checking_nodes
        /\ \A e \in events : e.kind = "checked" => e.node_id # n
        /\ \A p \in ProbeIds : probes[p].node_id # n

\* the value hasChildren and flags read is the value the settings dialog
\* wrote last
UsesConfig == CHECK_FOLDER_CONTENTS = config_CHECK_FOLDER_CONTENTS

\* a toggle of the switch leaves the loads and probes in flight alone
ToggleKeepsInFlight ==
    config_CHECK_FOLDER_CONTENTS' # config_CHECK_FOLDER_CONTENTS =>
        /\ \A w \in RunIds :
              InFlight(w) =>
                  /\ w \in RunIds'
                  /\ \A e \in events : (e.src = w /\ e.kind # "checked") => e \in events'
        /\ UNCHANGED <<probes, checking_nodes, active_checkers>>
        /\ \A e \in events : e.kind = "checked" => e \in events'

\* C32: toggling the probing switch at runtime changes the value the tree
\* model uses for every hasChildren/flags decision made after the toggle,
\* and does not change the handling of probes and loads already in flight.
C32_RuntimeToggle == []UsesConfig /\ [][ToggleKeepsInFlight]_vars

\* C33: once stop() has been called on a Loader run the run emits neither
\* finished nor error; whatever the thread of the current worker is doing
\* (not yet scheduled, inside run(), returned), every way stop() can end
\* leaves the queue of emissions as it was when stop() was called.
C33_StoppedRunIsSilent ==
    current_worker \in RunIds =>
        \A left \in stop(current_worker) : left[1] = events

\* C34: when a load result for parent P is applied, the insert bracket
\* addresses P at P's current row under its own parent: the row of the
\* index handed to beginInsertRows is the row P has when the result is
\* served (P still being in the tree), whatever happened to P's siblings
\* while the load was in flight.
C34_BracketAtCurrentRow ==
    [][\A e \in events :
          (Served(e) /\ e.kind = "finished" /\ InTree(runs[e.src].parent_node)) =>
              runs[e.src].parent_index = rowOf(runs[e.src].parent_node)]_vars

\* --------------------------------------- the Loader run, statement by statement
\* S3ObjectLoaderThread.run and _list_objects in their own steps, with
\* stop() arriving between any two of them: the state after refresh(), the
\* bucket list and fetchMore(bucket b), whose worker has been started; the
\* bucket holds keys.  The thread object carries the listing the store
\* holds (listing), the items _list_objects has collected (items) and
\* whether stop() has been called on it (cancelled).
InitLoad ==
    /\ \E keys \in SUBSET SortKeys :
          runs = (2 :> [parent_node |-> 1, bucket |-> <<"b">>, prefix |-> <<>>,
                        parent_index |-> 0,
                        phase |-> "started", is_running |-> FALSE, delivered |-> FALSE,
                        origin |-> "fetchMore", supersedes |-> 0,
                        superseded_origin |-> "", no_children |-> FALSE,
                        listing |-> list_objects(keys, <<"b">>, <<>>),
                        items |-> <<>>, cancelled |-> FALSE])
    /\ nodes = [n \in 0..2 |->
                  IF n = Root
                  THEN [S3Node(S3Object(<<>>, FOLDER, NoneVal, NoneVal), -1)
                          EXCEPT !.children = <<1, 2>>, !.is_loaded = TRUE]
                  ELSE S3Node(BucketObjects(<< <<"b">>, <<"a">> >>)[n], Root)]
    /\ node_map = 1..2
    /\ consumer = [n \in 0..2 |-> IF n = Root THEN 2 ELSE 0]
    /\ CHECK_FOLDER_CONTENTS = FALSE
    /\ config_CHECK_FOLDER_CONTENTS = CHECK_FOLDER_CONTENTS
    /\ s3_resource = TRUE
    /\ current_worker = 2
    /\ has_children_cache = <<>>
    /\ checking_nodes = {}
    /\ active_checkers = <<>>
    /\ run_count = 2
    /\ probes = <<>>
    /\ probe_count = 0
    /\ events = {}
    /\ signals = [loading_started |-> 2, loading_finished |-> 1,
                  view_loading_started |-> 3, view_loading_finished |-> 1,
                  error_occurred |-> 0]
    /\ brackets = <<Begin("reset", Root, 0, 0)>>
    /\ history = [interleaved |-> FALSE, unbracketed |-> FALSE, cleared |-> {},
                  stale |-> {}]
    /\ op_count = 2

\* what a step of the worker thread leaves alone
LoadRest ==
    <<nodes, CHECK_FOLDER_CONTENTS, config_CHECK_FOLDER_CONTENTS, current_worker,
      has_children_cache, checking_nodes, active_checkers, node_map, run_count, probes,
      probe_count, signals, brackets, consumer, history, op_count>>

\* run(): 'if self._is_running: return', then self._is_running = True
LoaderRunBegin(w) ==
    /\ runs[w].phase = "started"
    /\ ~runs[w].is_running
    /\ runs' = [runs EXCEPT ![w].phase = "listing", ![w].is_running = TRUE]
    /\ UNCHANGED <<events, s3_resource, LoadRest>>

\* _list_objects, one turn of its loop: the generator of list_objects hands
\* out the next item, or raises because the store failed on the page it
\* needed (the service sets s3_resource to None); 'if not self._is_running:
\* break' comes before items.append(item)
LoaderListNext(w) ==
    /\ runs[w].phase = "listing"
    /\ Len(runs[w].items) < Len(runs[w].listing)
    /\ \/ /\ runs' = [runs EXCEPT ![w].phase = "raised"]
          /\ s3_resource' = FALSE
       \/ /\ runs' = IF runs[w].is_running
                     THEN [runs EXCEPT ![w].items =
                              Append(@, runs[w].listing[Len(runs[w].items) + 1])]
                     ELSE [runs EXCEPT ![w].phase = "listed"]
          /\ UNCHANGED s3_resource
    /\ UNCHANGED <<events, LoadRest>>

\* _list_objects: the generator is exhausted (or the request for the page
\* after the last item fails) and the loop ends
LoaderListEnd(w) ==
    /\ runs[w].phase = "listing"
    /\ Len(runs[w].items) = Len(runs[w].listing)
    /\ \/ /\ runs' = [runs EXCEPT ![w].phase = "raised"]
          /\ s3_resource' = FALSE
       \/ /\ runs' = [runs EXCEPT ![w].phase = "listed"]
          /\ UNCHANGED s3_resource
    /\ UNCHANGED <<events, LoadRest>>

\* a run() that emits finished without looking at _is_running
EmitUnguarded(r) == TRUE

\* 'if self._is_running:' in front of self.finished.emit(nodes)
EmitGuard(r) == r.is_running

\* run(): 'if self._is_running: nodes = [...]', 'if self._is_running:
\* self.finished.emit(nodes)', finally: self._is_running = False
LoaderEmit(w) ==
    /\ runs[w].phase = "listed"
    /\ events' = IF EmitGuard(runs[w])
                 THEN events \cup {Event("finished", w, runs[w].items, 0, FALSE)}
                 ELSE events
    /\ runs' = [runs EXCEPT ![w].phase = "done", ![w].is_running = FALSE]
    /\ UNCHANGED <<s3_resource, LoadRest>>

\* run(): 'except Exception as e: if self._is_running: self.error.emit(str(e))',
\* finally: self._is_running = False
LoaderEmitError(w) ==
    /\ runs[w].phase = "raised"
    /\ events' = IF runs[w].is_running
                 THEN events \cup {Event("error", w, <<>>, 0, FALSE)}
                 ELSE events
    /\ runs' = [runs EXCEPT ![w].phase = "done", ![w].is_running = FALSE]
    /\ UNCHANGED <<s3_resource, LoadRest>>

\* stop() called from the engine thread: self._is_running = False (wait()
\* then blocks the caller, not the worker)
LoaderStop(w) ==
    /\ ~runs[w].cancelled
    /\ runs[w].phase # "done"
    /\ runs' = [runs EXCEPT ![w].is_running = FALSE, ![w].cancelled = TRUE]
    /\ UNCHANGED <<events, s3_resource, LoadRest>>

NextLoad ==
    \/ \E w \in RunIds : LoaderRunBegin(w)
    \/ \E w \in RunIds : LoaderListNext(w)
    \/ \E w \in RunIds : LoaderListEnd(w)
    \/ \E w \in RunIds : LoaderEmit(w)
    \/ \E w \in RunIds : LoaderEmitError(w)
    \/ \E w \in RunIds : LoaderStop(w)

SpecLoad == InitLoad /\ [][NextLoad]_vars

\* C35: every Loader run that is not cancelled delivers exactly one terminal
\* result; a run never emits both finished and error, a run that has
\* returned without being cancelled has emitted one of them, and every
\* finished emission, of a cancelled run as well, carries the complete
\* listing of the store.
C35_OneTerminalResult ==
    \A w \in RunIds :
        LET emitted == { e \in events : e.src = w }
        IN  /\ Cardinality(emitted) <= 1
            /\ (runs[w].phase = "done" /\ ~runs[w].cancelled) => Cardinality(emitted) = 1
            /\ \A e \in emitted : e.kind = "finished" => e.items = runs[w].listing

\* a run that was never cancelled has returned with the finished emission of
\* a listing of several items
C35_Witness ==
    \E w \in RunIds :
        /\ runs[w].phase = "done"
        /\ ~runs[w].cancelled
        /\ Len(runs[w].listing) > 1
        /\ \E e \in events : e.src = w /\ e.kind = "finished"

\* the existence probes for node n that are queued in the pool or running
ProbesFor(n) == { p \in ProbeIds : probes[p].node_id = n }

\* C36: probe deduplication; in every reachable state at most one existence
\* probe is queued or running for any node, and a step that dispatches a
\* probe dispatches it for a node without a cached verdict.
C36_ProbeDeduplication ==
    /\ [](\A n \in NodeIds : Cardinality(ProbesFor(n)) <= 1)
    /\ [][\A n \in NodeIds :
             ProbesFor(n) # ProbesFor(n)' /\ ProbesFor(n)' \ ProbesFor(n) # {} =>
                 n \notin DOMAIN has_children_cache]_vars

\* the listing a Loader run for container n delivers when the store holds
\* keys: _fetch_children's bucket and prefix handed to list_objects
FullListing(n, keys) ==
    IF nodes[n].type = BUCKET
    THEN list_objects(keys, nodes[n].name, <<>>)
    ELSE list_objects(keys, nodes[n].bucket, nodes[n].key \o <<"/">>)

\* C37: probe verdict correctness; for every bucket or folder with a probe
\* in flight and every store content, the verdict the probe delivers when
\* the store answers is HasChildren exactly when the full listing of the
\* container by the Loader is non-empty.
C37_VerdictMatchesListing ==
    \A p \in ProbeIds, s \in StoreContents :
        nodes[probes[p].node_id].type \in {BUCKET, FOLDER} =>
            CheckerCall(probes[p].node_id, s.keys).has_children
                = (Len(FullListing(probes[p].node_id, s.keys)) > 0)

\* C38: in every reachable state the number of loading_finished emissions
\* of the tree model does not exceed the number of its loading_started
\* emissions.
C38_FinishedWithinStarted == signals.loading_finished <= signals.loading_started

\* the children list of p without the nodes of selection sel
Without(list, sel) == SelectSeq(list, LAMBDA c : c \notin Range(sel))

\* the nodes of selection sel are rows of one parent
Siblings(sel) == \A i \in 1..Len(sel) : nodes[sel[i]].parent = nodes[sel[1]].parent

\* C39: after a confirmed delete action on a selection of one node or of
\* several siblings of one kind that the store accepts, exactly the selected
\* nodes are gone from the tree: every children list is what it was without
\* the selected nodes.
C39_DeleteRemovesSelection ==
    [][\A sel \in Selections :
          (global_delete(sel, Len(sel)) /\ s3_resource /\ Siblings(sel)) =>
              \A p \in NodeIds : nodes'[p].children = Without(nodes[p].children, sel)]_vars
====
